---- MODULE Spec2Model ----
(***************************************************************************)
(* Model of the climux command-line parsing code:                          *)
(*   - tortoise/reader.py : OptArgSpec, take, Reader.read, Merger          *)
(*   - genbu/cli.py       : CLInterface (expand, parse_opt, parse,         *)
(*                          parse_optargs), Namespace, check_arguments,    *)
(*                          rename, Renamer                                *)
(*   - infer_parser       : parse_none, parse_bool and infer, as            *)
(*                          test_infer_parser.py and the specification      *)
(*                          describe them                                   *)
(* A token is a sequence of one-character strings, so that startswith,     *)
(* slicing and splitting are computed and not assumed.                     *)
(***************************************************************************)
EXTENDS Integers, Sequences, FiniteSets, TLC

VARIABLES
    debug,      \* __debug__: FALSE under python -O, where assert statements are not executed
    x_long,     \* expand: the declared long options (without dashes)
    x_prefix,   \* expand: the prefix to expand (without dashes)
    x_spec,     \* expand: result of OptArgSpec.expand, or None
    x_cli,      \* expand: result of CLInterface.expand, or None
    r_in,       \* Reader: the constructor's arguments
    r_spec,     \* Reader: self.spec, the OptArgSpec built from them
    r_argv,     \* Reader.read: the argv it was called with
    r_deque,    \* Reader.read: deque
    r_opts,     \* Reader.read: opts
    r_args,     \* Reader.read: args
    r_cur,      \* Reader.read: what the for loop over current[1:] has left
    r_take,     \* take: the frame of the call in progress (count, args, return point)
    r_pc,       \* Reader.read: position
    r_err,      \* Reader.read: the exception raised, or None
    c_cli,      \* CLInterface.parse: self, the CLInterface parse is called on
    c_argv,     \* CLInterface.parse: the argv it was called with
    c_route,    \* parse: route, the matched subparsers
    c_deque,    \* parse: deque, then the argv given to parse_optargs
    c_sub,      \* parse: subparser, the context given to parse_optargs
    c_opts,     \* parse_optargs: the normalized options not yet parsed
    c_args,     \* parse_optargs: args, then the deque of positional tokens
    c_todo,     \* parse_optargs: the items of subparser.arguments not yet parsed
    c_optargs,  \* parse_optargs: optargs, the (name, value) pairs
    c_seen,     \* parse_optargs: number of value tokens normalize produced
    c_used,     \* parse_optargs: number of tokens the Params' parsers consumed
    c_pc,       \* parse: position
    c_out,      \* parse: the Namespace returned or the exception handled, or None
    n_optargs,  \* Renamer / Merger: the occurrences, as (spelling, value) pairs
    n_resolve,  \* Renamer: the resolver of the aliased Param
    n_using,    \* Merger: the using function of the aliased option
    n_renamed,  \* Renamer.__call__: the list after the loop and the dict returned
    n_merged,   \* Merger.merge: the list returned
    u_alts,     \* infer: the alternatives of the Union, in declared order
    u_token,    \* the token given to the inferred parser
    u_parsers,  \* infer: the parsers derived for the alternatives, in trial order
    u_i,        \* the inferred parser: index of the next alternative to try
    u_pc,       \* infer and the inferred parser: position
    u_out       \* CantInfer, or what the inferred parser returned, or None

expandVars == <<x_long, x_prefix, x_spec, x_cli>>
readerVars == <<r_in, r_spec, r_argv, r_deque, r_opts, r_args, r_cur, r_take, r_pc, r_err>>
cliVars == <<c_cli, c_argv, c_route, c_deque, c_sub, c_opts, c_args, c_todo, c_optargs,
            c_seen, c_used, c_pc, c_out>>
renameVars == <<n_optargs, n_resolve, n_using, n_renamed, n_merged>>
inferVars == <<u_alts, u_token, u_parsers, u_i, u_pc, u_out>>
vars == <<debug, expandVars, readerVars, cliVars, renameVars, inferVars>>

\* What the steps of one component leave alone: the other components' state
\* and the interpreter's mode.
ExpandOnly == UNCHANGED <<debug, readerVars, cliVars, renameVars, inferVars>>
ReaderOnly == UNCHANGED <<debug, expandVars, cliVars, renameVars, inferVars>>
CliOnly == UNCHANGED <<debug, expandVars, readerVars, renameVars, inferVars>>
RenameOnly == UNCHANGED <<debug, expandVars, readerVars, cliVars, inferVars>>
InferOnly == UNCHANGED <<debug, expandVars, readerVars, cliVars, renameVars>>

None == [kind |-> "None"]
Idle == [kind |-> "Idle"]

\* Results: a returned value, or a raised exception carrying its argument.
Ok(v) == [kind |-> "ok", value |-> v]
Raise(exc, arg) == [kind |-> exc, token |-> arg]
NoArg == <<"<no argument>">>

(***************************************************************************)
(* Strings                                                                 *)
(***************************************************************************)
\* str.startswith
StartsWith(s, p) ==
    /\ Len(p) <= Len(s)
    /\ \A i \in 1..Len(p) : s[i] = p[i]

\* s[n:] with n >= 0
DropFirst(s, n) == IF n >= Len(s) THEN <<>> ELSE SubSeq(s, n + 1, Len(s))

\* Position of the first "=" of s, or 0.
FirstEq(s) ==
    IF \E i \in 1..Len(s) : s[i] = "="
    THEN CHOOSE i \in 1..Len(s) : s[i] = "=" /\ \A j \in 1..(i - 1) : s[j] # "="
    ELSE 0

Dash == <<"-">>
DashDash == <<"-", "-">>

\* All sequences over S of length at most n.
RECURSIVE SeqsUpTo(_, _)
SeqsUpTo(S, n) ==
    IF n = 0 THEN {<<>>}
    ELSE LET shorter == SeqsUpTo(S, n - 1)
         IN shorter \cup {Append(s, c) : s \in {t \in shorter : Len(t) = n - 1}, c \in S}

(***************************************************************************)
(* Long-option prefix expansion                                            *)
(***************************************************************************)
\* OptArgSpec.expand(prefix): long_options carry no dashes, and the assert
\* requires the same of prefix.
OptArgSpec_expand(long_options, prefix) ==
    LET candidates == {o \in long_options : StartsWith(o, prefix)}
    IN IF debug /\ StartsWith(prefix, Dash)
       THEN Raise("AssertionError", NoArg)
       ELSE IF Cardinality(candidates) # 1
       THEN Raise("UnknownOption", DashDash \o prefix)
       ELSE Ok(CHOOSE o \in candidates : TRUE)

\* CLInterface.expand(prefix): options and prefix carry their dashes.
CLInterface_expand(options, prefix) ==
    IF ~StartsWith(prefix, DashDash)
    THEN IF prefix \in options THEN Ok(prefix) ELSE Raise("UnknownOption", prefix)
    ELSE LET candidates == {o \in options : StartsWith(o, prefix)}
         IN IF Cardinality(candidates) # 1
            THEN Raise("UnknownOption", prefix)
            ELSE Ok(CHOOSE o \in candidates : TRUE)

MaxPrefixLen == 3
ExpandChars == {"b", "a", "r", "z", "-"}
LongPool == {<<"b", "a", "r">>, <<"b", "a", "z">>, <<"b", "a">>, <<"r", "a", "b">>}
ExpandShort == {<<"-", "a">>}

\* The options mapping a CLInterface builds from the same declarations.
ExpandOptions == {DashDash \o o : o \in x_long} \cup ExpandShort

StartExpand ==
    /\ debug \in BOOLEAN
    /\ x_long \in SUBSET LongPool
    /\ x_prefix \in SeqsUpTo(ExpandChars, MaxPrefixLen)
    /\ x_spec = None
    /\ x_cli = None

ExpandSpec ==
    /\ x_spec = None
    /\ x_spec' = OptArgSpec_expand(x_long, x_prefix)
    /\ UNCHANGED <<x_long, x_prefix, x_cli>>
    /\ ExpandOnly

ExpandCLI ==
    /\ x_cli = None
    /\ x_cli' = CLInterface_expand(ExpandOptions, DashDash \o x_prefix)
    /\ UNCHANGED <<x_long, x_prefix, x_spec>>
    /\ ExpandOnly

NextExpand == ExpandSpec \/ ExpandCLI

IdleExpand ==
    /\ x_long = {}
    /\ x_prefix = <<>>
    /\ x_spec = Idle
    /\ x_cli = Idle

(***************************************************************************)
(* tortoise/reader.py: OptArgSpec, take, Reader.read                       *)
(***************************************************************************)
\* Count = Union[int, float], the float only used for inf.
Count(n) == [inf |-> FALSE, n |-> n]
Inf == [inf |-> TRUE, n |-> 0]
\* count > 0
Positive(c) == c.inf \/ c.n > 0
\* count -= 1 (inf - 1 is inf)
Decrement(c) == IF c.inf THEN c ELSE Count(c.n - 1)

\* OptArgSpec.__init__(short_options, *long_options, **counts): the options
\* named only in counts are added by their length, and every option without
\* a count gets 0; the assert then requires every option to have a name.
OptArgSpec_init(short_options, long_options, counts) ==
    LET undeclared == {o \in DOMAIN counts : o \notin short_options /\ o \notin long_options}
        short == short_options \cup {o \in undeclared : Len(o) = 1}
        long == long_options \cup {o \in undeclared : Len(o) # 1}
        all == short \cup long \cup DOMAIN counts
    IN IF debug /\ \E o \in all : Len(o) = 0
       THEN Raise("AssertionError", NoArg)
       ELSE Ok([short_options |-> short,
                long_options |-> long,
                counts |-> [o \in all |->
                               IF o \in DOMAIN counts THEN counts[o] ELSE Count(0)]])

\* take's loop test without the check for the next option.
TakeGuard_IgnoresDash(count, deque) ==
    /\ deque # <<>>
    /\ Positive(count)

\* take: the test of `while deque and not deque[0].startswith("-") and count > 0`
TakeGuard(count, deque) ==
    /\ deque # <<>>
    /\ ~StartsWith(Head(deque), Dash)
    /\ Positive(count)

\* A call of take(count, deque) made for option opt, to return to pc ret.
TakeFrame(opt, count, deque, ret) ==
    [opt |-> opt, count |-> count, args |-> <<>>, ret |-> ret,
     count0 |-> count, deque0 |-> deque]

\* while deque: current = deque.popleft(); if current.startswith("--"): ...
ReadLong ==
    /\ r_pc = "loop"
    /\ r_deque # <<>>
    /\ StartsWith(Head(r_deque), DashDash)
    /\ LET current == Head(r_deque)
           opt == OptArgSpec_expand(r_spec.long_options, DropFirst(current, 2))
       IN /\ r_deque' = Tail(r_deque)
          /\ IF opt.kind = "ok"
             THEN /\ r_take' = TakeFrame(opt.value, r_spec.counts[opt.value],
                                         Tail(r_deque), "loop")
                  /\ r_pc' = "take"
                  /\ r_err' = r_err
             ELSE /\ r_pc' = "error"
                  /\ r_err' = opt
                  /\ r_take' = r_take
    /\ UNCHANGED <<r_in, r_spec, r_argv, r_opts, r_args, r_cur>>
    /\ ReaderOnly

\* elif current.startswith("-"): for opt in current[1:]: ...
ReadShort ==
    /\ r_pc = "loop"
    /\ r_deque # <<>>
    /\ ~StartsWith(Head(r_deque), DashDash)
    /\ StartsWith(Head(r_deque), Dash)
    /\ r_deque' = Tail(r_deque)
    /\ r_cur' = DropFirst(Head(r_deque), 1)
    /\ r_pc' = "stack"
    /\ UNCHANGED <<r_in, r_spec, r_argv, r_opts, r_args, r_take, r_err>>
    /\ ReaderOnly

\* else: args.append(current)
ReadArg ==
    /\ r_pc = "loop"
    /\ r_deque # <<>>
    /\ ~StartsWith(Head(r_deque), Dash)
    /\ r_deque' = Tail(r_deque)
    /\ r_args' = Append(r_args, Head(r_deque))
    /\ UNCHANGED <<r_in, r_spec, r_argv, r_opts, r_cur, r_take, r_pc, r_err>>
    /\ ReaderOnly

\* return opts, args
ReadReturn ==
    /\ r_pc = "loop"
    /\ r_deque = <<>>
    /\ r_pc' = "done"
    /\ UNCHANGED <<r_in, r_spec, r_argv, r_deque, r_opts, r_args, r_cur, r_take, r_err>>
    /\ ReaderOnly

\* The iteration of `for opt in current[1:]` with every short option given
\* the count 1.
StackOpt_CountsOne ==
    /\ r_pc = "stack"
    /\ r_cur # <<>>
    /\ LET opt == <<Head(r_cur)>>
       IN /\ r_cur' = Tail(r_cur)
          /\ IF opt \notin r_spec.short_options
             THEN /\ r_pc' = "error"
                  /\ r_err' = Raise("UnknownOption", Dash \o opt)
                  /\ r_take' = r_take
             ELSE /\ r_take' = TakeFrame(opt, Count(1), r_deque, "stack")
                  /\ r_pc' = "take"
                  /\ r_err' = r_err
    /\ UNCHANGED <<r_in, r_spec, r_argv, r_deque, r_opts, r_args>>
    /\ ReaderOnly

\* One iteration of `for opt in current[1:]`, up to its call of take.
StackOpt ==
    /\ r_pc = "stack"
    /\ r_cur # <<>>
    /\ LET opt == <<Head(r_cur)>>
       IN /\ r_cur' = Tail(r_cur)
          /\ IF opt \notin r_spec.short_options
             THEN /\ r_pc' = "error"
                  /\ r_err' = Raise("UnknownOption", Dash \o opt)
                  /\ r_take' = r_take
             ELSE /\ r_take' = TakeFrame(opt, r_spec.counts[opt], r_deque, "stack")
                  /\ r_pc' = "take"
                  /\ r_err' = r_err
    /\ UNCHANGED <<r_in, r_spec, r_argv, r_deque, r_opts, r_args>>
    /\ ReaderOnly

\* The for loop has no character left.
StackEnd ==
    /\ r_pc = "stack"
    /\ r_cur = <<>>
    /\ r_pc' = "loop"
    /\ UNCHANGED <<r_in, r_spec, r_argv, r_deque, r_opts, r_args, r_cur, r_take, r_err>>
    /\ ReaderOnly

\* take: args.append(deque.popleft()); count -= 1
TakeLoop ==
    /\ r_pc = "take"
    /\ TakeGuard(r_take.count, r_deque)
    /\ r_take' = [r_take EXCEPT !.args = Append(@, Head(r_deque)),
                                !.count = Decrement(@)]
    /\ r_deque' = Tail(r_deque)
    /\ UNCHANGED <<r_in, r_spec, r_argv, r_opts, r_args, r_cur, r_pc, r_err>>
    /\ ReaderOnly

\* take: return args; the caller does opts.append((opt, args))
TakeReturn ==
    /\ r_pc = "take"
    /\ ~TakeGuard(r_take.count, r_deque)
    /\ r_opts' = Append(r_opts, <<r_take.opt, r_take.args>>)
    /\ r_pc' = r_take.ret
    /\ UNCHANGED <<r_in, r_spec, r_argv, r_deque, r_args, r_cur, r_take, r_err>>
    /\ ReaderOnly

NextReader ==
    \/ ReadLong
    \/ ReadShort
    \/ ReadArg
    \/ ReadReturn
    \/ StackOpt
    \/ StackEnd
    \/ TakeLoop
    \/ TakeReturn

\* Tokens of the Reader's argv.
T_4 == <<"4">>
T_5 == <<"5">>
T_dash == <<"-">>
T_a == <<"-", "a">>
T_a4 == <<"-", "a", "4">>
T_ab == <<"-", "a", "b">>
T_bar == <<"-", "-", "b", "a", "r">>
T_ba == <<"-", "-", "b", "a">>
T_bar5 == <<"-", "-", "b", "a", "r", "=", "5">>
T_dashbar == <<"-", "-", "-", "b", "a", "r">>
ReaderTokens == {T_4, T_5, T_dash, T_a, T_a4, T_ab, T_bar, T_ba, T_bar5, T_dashbar}

MaxArgv == 3

O_a == <<"a">>
O_b == <<"b">>
O_bar == <<"b", "a", "r">>
O_baz == <<"b", "a", "z">>

\* The **counts a Reader is constructed with.
ReaderCounts ==
    { <<>>,
      (O_a :> Count(1)),
      (O_a :> Inf) @@ (O_bar :> Count(1)),
      (O_b :> Count(1)) @@ (O_bar :> Count(2)),
      (O_a :> Count(2)) @@ (O_baz :> Inf) }

\* The arguments a Reader is constructed with; the last has a long option
\* without a name.
ReaderInputs ==
    [short_options : {{O_a}, {O_a, O_b}},
     long_options : {{O_bar}, {O_bar, O_baz}},
     counts : ReaderCounts]
    \cup {[short_options |-> {O_a}, long_options |-> {O_bar, <<>>}, counts |-> <<>>]}

\* Reader.__init__ and the entry of read: self.spec = OptArgSpec(...), then
\* deque = collections.deque(argv). Without a spec there is no Reader to
\* read with.
Construct(in) ==
    LET spec == OptArgSpec_init(in.short_options, in.long_options, in.counts)
    IN IF spec.kind = "ok"
       THEN r_spec = spec.value /\ r_pc = "loop" /\ r_err = None
       ELSE r_spec = None /\ r_pc = "error" /\ r_err = spec

StartReader ==
    /\ debug \in BOOLEAN
    /\ r_in \in ReaderInputs
    /\ Construct(r_in)
    /\ r_argv \in SeqsUpTo(ReaderTokens, MaxArgv)
    /\ r_deque = r_argv
    /\ r_opts = <<>>
    /\ r_args = <<>>
    /\ r_cur = <<>>
    /\ r_take = None

IdleReader ==
    /\ r_in = Idle
    /\ r_spec = Idle
    /\ r_argv = <<>>
    /\ r_deque = <<>>
    /\ r_opts = <<>>
    /\ r_args = <<>>
    /\ r_cur = <<>>
    /\ r_take = None
    /\ r_pc = "idle"
    /\ r_err = None

(***************************************************************************)
(* genbu: what cli.py imports from modules that are not in this source     *)
(* tree (params.py, combinators, normalize.py, forward.py).                *)
(***************************************************************************)
DigitValue ==
    ("0" :> 0) @@ ("1" :> 1) @@ ("2" :> 2) @@ ("3" :> 3) @@ ("4" :> 4) @@
    ("5" :> 5) @@ ("6" :> 6) @@ ("7" :> 7) @@ ("8" :> 8) @@ ("9" :> 9)

IsInt(tok) == tok # <<>> /\ \A i \in 1..Len(tok) : tok[i] \in DOMAIN DigitValue

\* int(tok) for a token of decimal digits
RECURSIVE IntOf(_)
IntOf(tok) ==
    IF tok = <<>> THEN 0
    ELSE 10 * IntOf(SubSeq(tok, 1, Len(tok) - 1)) + DigitValue[tok[Len(tok)]]

\* The combinators: One(int) and One(str), Emit(v), Repeat(parser).
One(type) == [kind |-> "One", type |-> type]
Emit(v) == [kind |-> "Emit", value |-> v]
Repeat(parser) == [kind |-> "Repeat", parser |-> parser]

\* A combinator applied to a token queue: the value and the remaining queue,
\* or CantParse. Repeat parses from the front while its parser succeeds.
RECURSIVE Apply(_, _)
Apply(parse, deque) ==
    CASE parse.kind = "One" ->
            IF deque = <<>> THEN Raise("CantParse", NoArg)
            ELSE IF parse.type = "str"
            THEN Ok([value |-> Head(deque), rest |-> Tail(deque)])
            ELSE IF ~IsInt(Head(deque)) THEN Raise("CantParse", Head(deque))
            ELSE Ok([value |-> IntOf(Head(deque)), rest |-> Tail(deque)])
      [] parse.kind = "Emit" -> Ok([value |-> parse.value, rest |-> deque])
      [] parse.kind = "Repeat" ->
            LET one == Apply(parse.parser, deque)
            IN IF one.kind # "ok" \/ one.value.rest = deque
               THEN Ok([value |-> <<>>, rest |-> deque])
               ELSE LET more == Apply(parse, one.value.rest)
                    IN Ok([value |-> <<one.value.value>> \o more.value.value,
                           rest |-> more.value.rest])

\* The upper bound on the tokens one occurrence of an option captures: none
\* for a parser that reads none, one for a parser of one token, and no bound
\* for a repetition.
CountOf(parse) ==
    CASE parse.kind = "Emit" -> Count(0)
      [] parse.kind = "One" -> Count(1)
      [] parse.kind = "Repeat" -> Inf

\* Param: a name, its option spellings (none for a positional, which is then
\* spelled by its name), a parser and a resolver.
Param(name, optargs, parse, resolve) ==
    [name |-> name,
     optargs |-> IF optargs = <<>> THEN <<name>> ELSE optargs,
     parse |-> parse,
     resolve |-> resolve,
     count |-> CountOf(parse)]

\* A resolver applied to the running value and the next one.
Resolve(resolve, a, b) ==
    CASE resolve = "add" -> a + b
      [] resolve = "sub" -> a - b
      [] resolve = "first" -> a
      [] resolve = "last" -> b

(***************************************************************************)
(* genbu/cli.py: CLInterface.__init__ and the declared contexts            *)
(***************************************************************************)
Range(f) == {f[i] : i \in DOMAIN f}

\* self.options: spelling -> Param, for the optargs that start with "-";
\* a later Param with the same spelling replaces an earlier one.
Options(params) ==
    LET owners(o) == {i \in DOMAIN params : o \in Range(params[i].optargs)}
        keys == {o \in UNION {Range(params[i].optargs) : i \in DOMAIN params} :
                    StartsWith(o, Dash)}
    IN [o \in keys |-> params[CHOOSE i \in owners(o) : \A j \in owners(o) : j <= i]]

\* self.arguments: the other optargs, as (spelling, Param) items in insertion
\* order.
RECURSIVE Flatten(_)
Flatten(params) ==
    IF params = <<>> THEN <<>>
    ELSE [i \in DOMAIN Head(params).optargs |->
             <<Head(params).optargs[i], Head(params)>>] \o Flatten(Tail(params))
Arguments(params) ==
    LET flat == Flatten(params)
        kept == {i \in DOMAIN flat :
                    /\ ~StartsWith(flat[i][1], Dash)
                    /\ \A j \in 1..(i - 1) : flat[j][1] # flat[i][1]}
        last(o) == CHOOSE i \in DOMAIN flat :
                      /\ flat[i][1] = o
                      /\ \A j \in DOMAIN flat : flat[j][1] = o => j <= i
        first(k) == CHOOSE i \in kept : Cardinality({j \in kept : j <= i}) = k
    IN [k \in 1..Cardinality(kept) |-> <<flat[first(k)][1], flat[last(flat[first(k)][1])][2]>>]

\* The callback of a context, by the parameters it requires and those it has
\* defaults for.
Callback(required, optional) == [required |-> required, optional |-> optional]

N_a == <<"a">>
N_b == <<"b">>
N_c == <<"c">>
N_x == <<"x">>
N_value == <<"v", "a", "l", "u", "e">>
N_arg == <<"a", "r", "g">>
N_numbers == <<"n", "u", "m", "b", "e", "r", "s">>
N_rest == <<"r", "e", "s", "t">>
S_a == <<"-", "a">>
S_b == <<"-", "b">>
S_c == <<"-", "c">>
S_n == <<"-", "n">>
S_cc == <<"-", "-", "c">>
S_bar == <<"-", "-", "b", "a", "r">>
S_baz == <<"-", "-", "b", "a", "z">>
S_value == <<"-", "-", "v", "a", "l", "u", "e">>
W_foo == <<"f", "o", "o">>
W_bar == <<"b", "a", "r">>
W_baz == <<"b", "a", "z">>
W_cli == <<"t", "e", "s", "t", "-", "c", "l", "i">>

\* A CLInterface without subparsers, named test-cli as make_cli names it.
Interface(params, callback) ==
    [name |-> W_cli, params |-> params, subparsers |-> <<>>, callback |-> callback,
     parent |-> "None"]

\* A CLInterface without Params, whose callback takes no parameter.
Command(name, subparsers, parent) ==
    [name |-> name, params |-> <<>>, subparsers |-> subparsers,
     callback |-> Callback({}, {}), parent |-> parent]

\* The CLInterfaces that tests/test_cli.py constructs: the tree of
\* test_cli_run_with_subparsers (foo with the subcommands bar and baz), and
\* the CLInterfaces of the tests without arguments, with short options,
\* stacked options, long options with equals, unknown options, ambiguous
\* long options and missing options. A Param declared without a resolver
\* keeps the last value.
TestContexts ==
    [foo |-> Command(W_foo, <<"bar", "baz">>, "None"),
     bar |-> Command(W_bar, <<>>, "foo"),
     baz |-> Command(W_baz, <<>>, "foo"),
     arg |-> Interface(<< Param(N_arg, <<>>, Repeat(One("str")), "last") >>,
                       Callback({N_arg}, {})),
     short |-> Interface(<< Param(N_x, <<S_a, S_b, S_c>>, One("int"), "add") >>,
                         Callback({N_x}, {})),
     stacked |-> Interface(<< Param(N_a, <<S_a>>, Emit("a"), "last"),
                              Param(N_b, <<S_b>>, Emit("b"), "last"),
                              Param(N_c, <<S_c>>, Emit("c"), "last") >>,
                           Callback({}, {N_a, N_b, N_c})),
     equals |-> Interface(<< Param(N_value, <<S_value>>, One("int"), "last") >>,
                          Callback({N_value}, {})),
     unknown |-> Interface(<<>>, Callback({}, {})),
     ambiguous |-> Interface(<< Param(W_bar, <<S_bar>>, Emit(TRUE), "last"),
                                Param(W_baz, <<S_baz>>, Emit(TRUE), "last") >>,
                             Callback({}, {})),
     missing |-> Interface(<< Param(N_a, <<>>, One("int"), "last"),
                              Param(N_b, <<S_b>>, One("int"), "last"),
                              Param(N_c, <<S_cc>>, One("int"), "last") >>,
                           Callback({N_a, N_b, N_c}, {}))]

\* One more CLInterface, of none of the tests: an option that repeats
\* One(int) and so captures every token up to the next option, before a
\* positional parameter that repeats One(str).
MoreContexts ==
    [mixed |-> Interface(<< Param(N_numbers, <<S_n>>, Repeat(One("int")), "last"),
                            Param(N_rest, <<>>, Repeat(One("str")), "last") >>,
                         Callback({}, {N_numbers, N_rest}))]

Contexts == TestContexts @@ MoreContexts

\* The CLInterfaces that parse is called on.
Roots == {c \in DOMAIN Contexts : Contexts[c].parent = "None"}

\* self
Root == c_cli

(***************************************************************************)
(* normalize (genbu/normalize.py is not in this source tree): the  *)
(* classifier of the specification's section 4.4, producing the options    *)
(* as lists [spelling, captured...] and the positional tokens.             *)
(***************************************************************************)
\* The tokens captured from the front of deque under the bound count, and
\* the remaining queue.
RECURSIVE Capture(_, _, _)
Capture(count, deque, args) ==
    IF TakeGuard(count, deque)
    THEN Capture(Decrement(count), Tail(deque), Append(args, Head(deque)))
    ELSE [args |-> args, rest |-> deque]

\* The argument a stacked option claims from the rest of its token (-a4,
\* -c=6).
StackArgument(rest) == IF Head(rest) = "=" THEN Tail(rest) ELSE rest

\* The characters of one stacked token, in turn.
RECURSIVE NormalizeStack(_, _, _, _)
NormalizeStack(options, chars, deque, opts) ==
    IF chars = <<>> THEN Ok([opts |-> opts, rest |-> deque])
    ELSE LET spelling == Dash \o <<Head(chars)>>
         IN IF spelling \notin DOMAIN options THEN Raise("UnknownOption", spelling)
            ELSE IF ~Positive(options[spelling].count)
            THEN NormalizeStack(options, Tail(chars), deque, Append(opts, <<spelling>>))
            ELSE IF Tail(chars) # <<>>
            THEN Ok([opts |-> Append(opts, <<spelling, StackArgument(Tail(chars))>>),
                     rest |-> deque])
            ELSE LET t == Capture(options[spelling].count, deque, <<>>)
                 IN Ok([opts |-> Append(opts, <<spelling>> \o t.args), rest |-> t.rest])

RECURSIVE NormalizeLoop(_, _, _, _)
NormalizeLoop(options, deque, opts, args) ==
    IF deque = <<>> THEN Ok([options |-> opts, arguments |-> args])
    ELSE LET current == Head(deque)
         IN IF StartsWith(current, DashDash)
            THEN LET body == DropFirst(current, 2)
                     eq == FirstEq(body)
                     prefix == IF eq > 0 THEN SubSeq(body, 1, eq - 1) ELSE body
                     name == CLInterface_expand(DOMAIN options, DashDash \o prefix)
                 IN IF name.kind # "ok" THEN name
                    ELSE IF eq > 0
                    THEN NormalizeLoop(options, Tail(deque),
                                       Append(opts, <<name.value, DropFirst(body, eq)>>), args)
                    ELSE LET t == Capture(options[name.value].count, Tail(deque), <<>>)
                         IN NormalizeLoop(options, t.rest,
                                          Append(opts, <<name.value>> \o t.args), args)
            ELSE IF StartsWith(current, Dash) /\ Len(current) > 1
            THEN LET st == NormalizeStack(options, DropFirst(current, 1), Tail(deque), opts)
                 IN IF st.kind # "ok" THEN st
                    ELSE NormalizeLoop(options, st.value.rest, st.value.opts, args)
            ELSE NormalizeLoop(options, Tail(deque), opts, Append(args, current))

normalize(params, argv) == NormalizeLoop(Options(params), argv, <<>>, <<>>)

\* to_args_kwargs (genbu/forward.py is not in this source tree): the
\* values of the names the function declares.
to_args_kwargs(optargs, function) ==
    [n \in DOMAIN optargs \cap (function.required \cup function.optional) |-> optargs[n]]

\* inspect.Signature.bind: whether every parameter without a default is given.
CanBind(function, bound) == function.required \subseteq DOMAIN bound

(***************************************************************************)
(* genbu/cli.py: parse_opt, rename, Renamer, check_arguments               *)
(***************************************************************************)
\* CLInterface.parse_opt(prefix, args)
CLInterface_parse_opt(params, prefix, args) ==
    LET options == Options(params)
        name == CLInterface_expand(DOMAIN options, prefix)
    IN IF debug /\ ~StartsWith(prefix, Dash) THEN Raise("AssertionError", NoArg)
       ELSE IF name.kind # "ok" THEN name
       ELSE IF name.value \notin DOMAIN options THEN Raise("UnknownOption", name.value)
       ELSE LET parsed == Apply(options[name.value].parse, args)
            IN IF parsed.kind # "ok" THEN parsed
               ELSE Ok([name |-> name.value,
                        value |-> parsed.value.value,
                        unused |-> parsed.value.rest])

\* rename: the loop over optargs; final is <<>> for the sentinel `none`.
RECURSIVE rename_loop(_, _, _, _, _)
rename_loop(optargs, names, resolve, renamed, final) ==
    IF optargs = <<>> THEN [renamed |-> renamed, final |-> final]
    ELSE LET param == Head(optargs)[1]
             value == Head(optargs)[2]
         IN IF param \in names
            THEN rename_loop(Tail(optargs), names, resolve, renamed,
                             IF final = <<>> THEN <<value>>
                             ELSE <<Resolve(resolve, final[1], value)>>)
            ELSE rename_loop(Tail(optargs), names, resolve,
                             Append(renamed, <<param, value>>), final)

\* rename with the resolver's arguments exchanged.
RECURSIVE rename_loop_Swapped(_, _, _, _, _)
rename_loop_Swapped(optargs, names, resolve, renamed, final) ==
    IF optargs = <<>> THEN [renamed |-> renamed, final |-> final]
    ELSE LET param == Head(optargs)[1]
             value == Head(optargs)[2]
         IN IF param \in names
            THEN rename_loop_Swapped(Tail(optargs), names, resolve, renamed,
                                     IF final = <<>> THEN <<value>>
                                     ELSE <<Resolve(resolve, value, final[1])>>)
            ELSE rename_loop_Swapped(Tail(optargs), names, resolve,
                                     Append(renamed, <<param, value>>), final)
rename_Swapped(optargs, name, names, resolve) ==
    LET r == rename_loop_Swapped(optargs, names, resolve, <<>>, <<>>)
    IN IF r.final # <<>> THEN Append(r.renamed, <<name, r.final[1]>>) ELSE r.renamed

\* rename(optargs, name, names, resolve)
rename(optargs, name, names, resolve) ==
    LET r == rename_loop(optargs, names, resolve, <<>>, <<>>)
    IN IF r.final # <<>> THEN Append(r.renamed, <<name, r.final[1]>>) ELSE r.renamed

\* dict(pairs): the last pair of a key gives its value.
Dict(pairs) ==
    LET last(k) == CHOOSE i \in DOMAIN pairs :
                       /\ pairs[i][1] = k
                       /\ \A j \in DOMAIN pairs : pairs[j][1] = k => j <= i
    IN [k \in {pairs[i][1] : i \in DOMAIN pairs} |-> pairs[last(k)][2]]

\* Renamer.__call__: the loop over self.params
RECURSIVE Renamer_loop(_, _)
Renamer_loop(params, optargs) ==
    IF params = <<>> THEN optargs
    ELSE Renamer_loop(Tail(params),
                      rename(optargs, Head(params).name, Range(Head(params).optargs),
                             Head(params).resolve))

Renamer_call(params, optargs) == Dict(Renamer_loop(params, optargs))

\* check_arguments(optargs, function): `raise MissingArgument from exc` gives
\* the exception no argument; the TypeError of bind is only its __cause__.
check_arguments(optargs, function) ==
    IF CanBind(function, to_args_kwargs(optargs, function))
    THEN Ok(optargs)
    ELSE Raise("MissingArgument", NoArg)

(***************************************************************************)
(* genbu/cli.py: CLInterface.parse, parse_optargs and __call__             *)
(***************************************************************************)
\* route[-1] if route else self
Active(route) == IF route # <<>> THEN route[Len(route)] ELSE Root
\* route[0] if route else self
NamespaceContext(route) == IF route # <<>> THEN route[1] ELSE Root

\* The subparsers of self whose name is deque[0] (the for loop of parse).
Matching(token) ==
    {s \in Range(Contexts[Root].subparsers) : Contexts[s].name = token}

\* except CLError as exc: subparser.error_handler(subparser, exc), which exits.
Handled(exc, route) == [kind |-> "exit", exc |-> exc, cli |-> Active(route)]

\* What parse ends with when exc is raised: only a CLError is caught, and an
\* AssertionError is none.
Caught(exc, route) == IF exc.kind = "AssertionError" THEN exc ELSE Handled(exc, route)

Namespace(names, cli) == [kind |-> "Namespace", names |-> names, cli |-> cli]

\* One iteration of `while deque` that finds a subparser named deque[0].
RouteMatch ==
    /\ c_pc = "route"
    /\ c_deque # <<>>
    /\ Matching(Head(c_deque)) # {}
    /\ c_route' = Append(c_route, CHOOSE s \in Matching(Head(c_deque)) : TRUE)
    /\ c_deque' = Tail(c_deque)
    /\ UNCHANGED <<c_cli, c_argv, c_sub, c_opts, c_args, c_todo, c_optargs, c_seen, c_used,
                   c_pc, c_out>>
    /\ CliOnly

\* One iteration that finds none: prev == len(route), break.
RouteBreak ==
    /\ c_pc = "route"
    /\ c_deque # <<>>
    /\ Matching(Head(c_deque)) = {}
    /\ c_sub' = Active(c_route)
    /\ c_pc' = "normalize"
    /\ UNCHANGED <<c_cli, c_argv, c_route, c_deque, c_opts, c_args, c_todo, c_optargs, c_seen,
                   c_used, c_out>>
    /\ CliOnly

\* The while loop ends with the deque empty.
RouteEnd ==
    /\ c_pc = "route"
    /\ c_deque = <<>>
    /\ c_sub' = Active(c_route)
    /\ c_pc' = "normalize"
    /\ UNCHANGED <<c_cli, c_argv, c_route, c_deque, c_opts, c_args, c_todo, c_optargs, c_seen,
                   c_used, c_out>>
    /\ CliOnly

RECURSIVE CountCaptured(_)
CountCaptured(opts) ==
    IF opts = <<>> THEN 0 ELSE Len(Head(opts)) - 1 + CountCaptured(Tail(opts))

\* parse_optargs: normalized = normalize(subparser.params, argv)
Normalize ==
    /\ c_pc = "normalize"
    /\ LET normalized == normalize(Contexts[c_sub].params, c_deque)
       IN IF normalized.kind = "ok"
          THEN /\ c_opts' = normalized.value.options
               /\ c_args' = normalized.value.arguments
               /\ c_seen' = CountCaptured(normalized.value.options)
                              + Len(normalized.value.arguments)
               /\ c_pc' = "opts"
               /\ c_out' = c_out
          ELSE /\ c_pc' = "error"
               /\ c_out' = Handled(normalized, c_route)
               /\ UNCHANGED <<c_opts, c_args, c_seen>>
    /\ UNCHANGED <<c_cli, c_argv, c_route, c_deque, c_sub, c_todo, c_optargs, c_used>>
    /\ CliOnly

\* The iteration of `for opt in opts` without args.extend(unused).
ParseOpt_DropsUnused ==
    /\ c_pc = "opts"
    /\ c_opts # <<>>
    /\ LET opt == Head(c_opts)
           parsed == CLInterface_parse_opt(Contexts[c_sub].params, opt[1], Tail(opt))
       IN IF parsed.kind = "ok"
          THEN /\ c_optargs' = Append(c_optargs, <<parsed.value.name, parsed.value.value>>)
               /\ c_used' = c_used + (Len(opt) - 1) - Len(parsed.value.unused)
               /\ c_opts' = Tail(c_opts)
               /\ UNCHANGED <<c_pc, c_out, c_args>>
          ELSE /\ c_pc' = "error"
               /\ c_out' = Caught(parsed, c_route)
               /\ UNCHANGED <<c_optargs, c_args, c_used, c_opts>>
    /\ UNCHANGED <<c_cli, c_argv, c_route, c_deque, c_sub, c_todo, c_seen>>
    /\ CliOnly

\* One iteration of `for opt in opts`: parse_opt, optargs.append,
\* args.extend(unused).
ParseOpt ==
    /\ c_pc = "opts"
    /\ c_opts # <<>>
    /\ LET opt == Head(c_opts)
           parsed == CLInterface_parse_opt(Contexts[c_sub].params, opt[1], Tail(opt))
       IN IF parsed.kind = "ok"
          THEN /\ c_optargs' = Append(c_optargs, <<parsed.value.name, parsed.value.value>>)
               /\ c_args' = c_args \o parsed.value.unused
               /\ c_used' = c_used + (Len(opt) - 1) - Len(parsed.value.unused)
               /\ c_opts' = Tail(c_opts)
               /\ UNCHANGED <<c_pc, c_out>>
          ELSE /\ c_pc' = "error"
               /\ c_out' = Caught(parsed, c_route)
               /\ UNCHANGED <<c_optargs, c_args, c_used, c_opts>>
    /\ UNCHANGED <<c_cli, c_argv, c_route, c_deque, c_sub, c_todo, c_seen>>
    /\ CliOnly

\* deque = collections.deque(args), before the loop over subparser.arguments
OptsDone ==
    /\ c_pc = "opts"
    /\ c_opts = <<>>
    /\ c_todo' = Arguments(Contexts[c_sub].params)
    /\ c_pc' = "args"
    /\ UNCHANGED <<c_cli, c_argv, c_route, c_deque, c_sub, c_opts, c_args, c_optargs, c_seen,
                   c_used, c_out>>
    /\ CliOnly

\* One iteration of `for name, param in subparser.arguments.items()`.
ParseArg ==
    /\ c_pc = "args"
    /\ c_todo # <<>>
    /\ LET name == Head(c_todo)[1]
           param == Head(c_todo)[2]
           parsed == Apply(param.parse, c_args)
       IN IF parsed.kind = "ok"
          THEN /\ c_optargs' = Append(c_optargs, <<name, parsed.value.value>>)
               /\ c_args' = parsed.value.rest
               /\ c_used' = c_used + Len(c_args) - Len(parsed.value.rest)
               /\ c_todo' = Tail(c_todo)
               /\ UNCHANGED <<c_pc, c_out>>
          ELSE /\ c_pc' = "error"
               /\ c_out' = Handled(parsed, c_route)
               /\ UNCHANGED <<c_optargs, c_args, c_used, c_todo>>
    /\ UNCHANGED <<c_cli, c_argv, c_route, c_deque, c_sub, c_opts, c_seen>>
    /\ CliOnly

\* if deque: raise UnknownOption(deque[0])
Leftover ==
    /\ c_pc = "args"
    /\ c_todo = <<>>
    /\ c_args # <<>>
    /\ c_pc' = "error"
    /\ c_out' = Handled(Raise("UnknownOption", Head(c_args)), c_route)
    /\ UNCHANGED <<c_cli, c_argv, c_route, c_deque, c_sub, c_opts, c_args, c_todo, c_optargs,
                   c_seen, c_used>>
    /\ CliOnly

\* renamed = Renamer(...)(optargs); check_arguments(renamed, subparser.callback);
\* return Namespace(optargs, route[0] if route else self)
Finish ==
    /\ c_pc = "args"
    /\ c_todo = <<>>
    /\ c_args = <<>>
    /\ LET renamed == Renamer_call(Contexts[c_sub].params, c_optargs)
           checked == check_arguments(renamed, Contexts[c_sub].callback)
       IN IF checked.kind = "ok"
          THEN /\ c_pc' = "done"
               /\ c_out' = Namespace(checked.value, NamespaceContext(c_route))
          ELSE /\ c_pc' = "error"
               /\ c_out' = Handled(checked, c_route)
    /\ UNCHANGED <<c_cli, c_argv, c_route, c_deque, c_sub, c_opts, c_args, c_todo, c_optargs,
                   c_seen, c_used>>
    /\ CliOnly

\* CLInterface.__call__: namespace.bind(namespace.cli.callback)
Call ==
    /\ c_pc = "done"
    /\ LET function == Contexts[c_out.cli].callback
           bound == to_args_kwargs(c_out.names, function)
       IN c_out' = [kind |-> IF CanBind(function, bound) THEN "return" ELSE "TypeError",
                    names |-> c_out.names,
                    cli |-> c_out.cli,
                    args |-> bound]
    /\ c_pc' = "called"
    /\ UNCHANGED <<c_cli, c_argv, c_route, c_deque, c_sub, c_opts, c_args, c_todo, c_optargs,
                   c_seen, c_used>>
    /\ CliOnly

NextCli ==
    \/ RouteMatch
    \/ RouteBreak
    \/ RouteEnd
    \/ Normalize
    \/ ParseOpt
    \/ OptsDone
    \/ ParseArg
    \/ Leftover
    \/ Finish
    \/ Call

\* Tokens of the CLInterface's argv.
V_1 == <<"1">>
V_2 == <<"2">>
V_3 == <<"3">>
V_5 == <<"5">>
V_x == <<"x">>
A_a4 == <<"-", "a", "4">>
A_c6 == <<"-", "c", "=", "6">>
A_ab == <<"-", "a", "b">>
A_i == <<"-", "i">>
A_val7 == <<"-", "-", "v", "a", "l", "=", "7">>
CliTokens ==
    {W_bar, W_baz, V_1, V_2, V_x,
     A_a4, S_b, A_c6, A_ab, A_i, S_n, S_cc, T_ba, S_value, A_val7}

MaxCliArgv == 3

\* The command lines of tests/test_cli.py that are longer than MaxCliArgv.
TestArgvs ==
    { <<A_a4, S_b, V_5, A_c6>>,
      <<S_b, V_1, S_cc, V_2>>,
      <<V_1, S_b, V_2, S_cc, V_3>> }

StartCli ==
    /\ debug \in BOOLEAN
    /\ c_cli \in Roots
    /\ c_argv \in SeqsUpTo(CliTokens, MaxCliArgv) \cup TestArgvs
    /\ c_route = <<>>
    /\ c_deque = c_argv
    /\ c_sub = "None"
    /\ c_opts = <<>>
    /\ c_args = <<>>
    /\ c_todo = <<>>
    /\ c_optargs = <<>>
    /\ c_seen = 0
    /\ c_used = 0
    /\ c_pc = "route"
    /\ c_out = None

IdleCli ==
    /\ c_cli = "None"
    /\ c_argv = <<>>
    /\ c_route = <<>>
    /\ c_deque = <<>>
    /\ c_sub = "None"
    /\ c_opts = <<>>
    /\ c_args = <<>>
    /\ c_todo = <<>>
    /\ c_optargs = <<>>
    /\ c_seen = 0
    /\ c_used = 0
    /\ c_pc = "idle"
    /\ c_out = None

(***************************************************************************)
(* Renaming and merging on their own: Renamer.__call__ (genbu/cli.py) and  *)
(* Merger.merge (tortoise/reader.py) applied to lists of occurrences.      *)
(***************************************************************************)
\* A using function applied to the accumulated and the next argument list.
Using(using, accumulator, args) ==
    CASE using = "concat" -> accumulator \o args
      [] using = "head" -> SubSeq(accumulator, 1, 1) \o args
      [] using = "second" -> args

\* Merger._merge_one: the loop over opts; accumulator is <<>> for None and
\* <<list>> otherwise.
RECURSIVE merge_one_loop(_, _, _, _, _, _)
merge_one_loop(opts, name, names, using, merged, accumulator) ==
    IF opts = <<>> THEN [merged |-> merged, accumulator |-> accumulator]
    ELSE LET opt == Head(opts)[1]
             args == Head(opts)[2]
         IN IF opt = name \/ opt \in names
            THEN merge_one_loop(Tail(opts), name, names, using, merged,
                                IF accumulator = <<>> THEN <<args>>
                                ELSE <<Using(using, accumulator[1], args)>>)
            ELSE merge_one_loop(Tail(opts), name, names, using,
                                Append(merged, <<opt, args>>), accumulator)

\* Merger._merge_one(opts, name, *names, using=using)
Merger_merge_one(opts, name, names, using) ==
    LET r == merge_one_loop(opts, name, names, using, <<>>, <<>>)
    IN IF r.accumulator # <<>> THEN Append(r.merged, <<name, r.accumulator[1]>>)
       ELSE r.merged

\* Merger.merge(opts): the loop over self.queue
RECURSIVE Merger_merge(_, _)
Merger_merge(queue, opts) ==
    IF queue = <<>> THEN opts
    ELSE Merger_merge(Tail(queue),
                      Merger_merge_one(opts, Head(queue)[1], Head(queue)[2], Head(queue)[3]))

\* The Params renamed: x, spelled -a, -b or -c, and the positional rest; the
\* spelling -i belongs to no Param.
RenameParams ==
    << Param(N_x, <<S_a, S_b, S_c>>, One("int"), n_resolve),
       Param(N_rest, <<>>, Repeat(One("int")), "last") >>

\* The same declarations as a Merger's queue of (name, names, using).
MergeQueue ==
    << <<N_x, {S_a, S_b, S_c}, n_using>>,
       <<N_rest, {}, "second">> >>

\* The occurrences as Reader.read lists them: each with its list of
\* arguments.
MergeOpts == [i \in DOMAIN n_optargs |-> <<n_optargs[i][1], <<n_optargs[i][2]>> >>]

MaxOccurrences == 3
OccurrenceSpellings == {S_a, S_b, <<"-", "i">>, N_rest}
OccurrenceValues == {1, 2, 3}
\* The occurrences of `-a4 -b 5 -c=6` (tests/test_cli.py).
TestOccurrences == << <<S_a, 4>>, <<S_b, 5>>, <<S_c, 6>> >>

StartRename ==
    /\ n_optargs \in SeqsUpTo(OccurrenceSpellings \X OccurrenceValues, MaxOccurrences)
                        \cup {TestOccurrences}
    /\ n_resolve \in {"add", "sub", "last"}
    /\ n_using \in {"concat", "head"}
    /\ n_renamed = None
    /\ n_merged = None

RenameAll ==
    /\ n_renamed = None
    /\ n_renamed' = [kind |-> "ok",
                     list |-> Renamer_loop(RenameParams, n_optargs),
                     dict |-> Renamer_call(RenameParams, n_optargs)]
    /\ UNCHANGED <<n_optargs, n_resolve, n_using, n_merged>>
    /\ RenameOnly

MergeAll ==
    /\ n_merged = None
    /\ n_merged' = [kind |-> "ok", list |-> Merger_merge(MergeQueue, MergeOpts)]
    /\ UNCHANGED <<n_optargs, n_resolve, n_using, n_renamed>>
    /\ RenameOnly

NextRename == RenameAll \/ MergeAll

IdleRename ==
    /\ n_optargs = <<>>
    /\ n_resolve = "last"
    /\ n_using = "second"
    /\ n_renamed = Idle
    /\ n_merged = Idle

(***************************************************************************)
(* Stacked flags: the command lines of test_cli_run_with_stacked_options   *)
(* (tests/test_cli.py), read by a tortoise Reader that declares a, b and c *)
(* without counts, and parsed by the CLInterface of that test, which       *)
(* declares them as the flags -a, -b and -c.                               *)
(***************************************************************************)
O_c == <<"c">>
FlagChars == {"a", "b", "c"}

\* The single-dash tokens that stack a permutation of a non-empty subset of
\* the flags.
FlagStacks ==
    {Dash \o s : s \in {t \in SeqsUpTo(FlagChars, Cardinality(FlagChars)) :
                           /\ t # <<>>
                           /\ \A i, j \in DOMAIN t : t[i] = t[j] => i = j}}

\* Reader("abc", "bar", bar=1)
FlagReader ==
    [short_options |-> {O_a, O_b, O_c},
     long_options |-> {O_bar},
     counts |-> (O_bar :> Count(1))]

\* The number of tokens that follow the stacked token.
MaxFollowing == 2

\* The sources of the test: one stacked token, or none ("").
StackedSources == {<<>>} \cup {<<s>> : s \in FlagStacks}

\* The CLInterfaces given the command line: the one of the test, and two
\* that declare no flag, foo with its subcommands and the one with the
\* positional arg.
StackedRoots == {"stacked", "foo", "arg"}

\* The stacked token is followed, for the Reader, by positional tokens and
\* the option --bar, and for the CLInterface by positional tokens, and it
\* may follow the name of a subcommand.
StartStacked ==
    \E stack \in StackedSources :
        /\ debug \in BOOLEAN
        /\ r_in = FlagReader
        /\ Construct(r_in)
        /\ \E following \in SeqsUpTo({T_4, T_bar}, MaxFollowing) :
              r_argv = stack \o following
        /\ r_deque = r_argv
        /\ r_opts = <<>>
        /\ r_args = <<>>
        /\ r_cur = <<>>
        /\ r_take = None
        /\ c_cli \in StackedRoots
        /\ \E route \in {<<>>, <<W_bar>>}, following \in SeqsUpTo({V_1}, MaxFollowing) :
              c_argv = route \o stack \o following
        /\ c_route = <<>>
        /\ c_deque = c_argv
        /\ c_sub = "None"
        /\ c_opts = <<>>
        /\ c_args = <<>>
        /\ c_todo = <<>>
        /\ c_optargs = <<>>
        /\ c_seen = 0
        /\ c_used = 0
        /\ c_pc = "route"
        /\ c_out = None

NextStacked == NextReader \/ NextCli

(***************************************************************************)
(* infer_parser (the module is not in this source tree): the converters    *)
(* as test_infer_parser.py exercises them, and infer on a Union as the     *)
(* specification's section 4.2 describes it.                               *)
(***************************************************************************)
\* Typed values: a Python bool is an int that is 0 or 1 (False == 0), so the
\* type is kept beside the number.
IntValue(n) == [type |-> "int", value |-> n]
BoolValue(b) == [type |-> "bool", value |-> IF b THEN 1 ELSE 0]
NoneValue == [type |-> "NoneType", value |-> 0]

U_empty == <<>>
U_0 == <<"0">>
U_1 == <<"1">>
U_42 == <<"4", "2">>
U_minus5 == <<"-", "5">>
U_true == <<"t", "r", "u", "e">>
U_True == <<"T", "r", "u", "e">>
U_TRue == <<"T", "R", "u", "e">>
U_false == <<"f", "a", "l", "s", "e">>
U_False == <<"F", "a", "l", "s", "e">>
U_None == <<"N", "o", "n", "e">>
U_none == <<"n", "o", "n", "e">>
U_e == <<"e">>

\* parse_none: "" and "None" give None, nothing else does.
parse_none(string) ==
    IF string \in {U_empty, U_None} THEN Ok(NoneValue)
    ELSE Raise("CantParse", string)

\* parse_bool: "true", "True" and "1" give True; "", "false", "False" and "0"
\* give False; nothing else is parsed.
parse_bool(string) ==
    IF string \in {U_true, U_True, U_1} THEN Ok(BoolValue(TRUE))
    ELSE IF string \in {U_empty, U_false, U_False, U_0} THEN Ok(BoolValue(FALSE))
    ELSE Raise("CantParse", string)

\* infer(int): int(string) for an optional sign and decimal digits, and
\* CantParse where int raises.
parse_int(string) ==
    IF IsInt(string) THEN Ok(IntValue(IntOf(string)))
    ELSE IF string # <<>> /\ Head(string) = "-" /\ IsInt(Tail(string))
    THEN Ok(IntValue(0 - IntOf(Tail(string))))
    ELSE Raise("CantParse", string)

\* The shapes a Union is declared with here; Any has no parser.
Shapes == {"int", "bool", "None", "Any"}
Supported(shape) == shape # "Any"

\* infer(shape) for a supported scalar shape, applied to a token.
Parser(shape, string) ==
    CASE shape = "None" -> parse_none(string)
      [] shape = "bool" -> parse_bool(string)
      [] shape = "int" -> parse_int(string)

\* The alternatives with bool moved to the front (the most specific type
\* first), in place of the declared order.
BoolFirst(alts) ==
    LET IsBool(a) == a = "bool"
        NotBool(a) == a # "bool"
    IN SelectSeq(alts, IsBool) \o SelectSeq(alts, NotBool)

\* infer(Union[alts]) that tries bool before the other alternatives.
Infer_BoolFirst ==
    /\ u_pc = "infer"
    /\ IF \A i \in DOMAIN u_alts : Supported(u_alts[i])
       THEN /\ u_parsers' = BoolFirst(u_alts)
            /\ u_i' = 1
            /\ u_pc' = "try"
            /\ u_out' = u_out
       ELSE /\ u_pc' = "done"
            /\ u_out' = Raise("CantInfer", NoArg)
            /\ UNCHANGED <<u_parsers, u_i>>
    /\ UNCHANGED <<u_alts, u_token>>
    /\ InferOnly

\* infer(Union[alts]): a parser is derived per alternative, in declared
\* order; CantInfer if one of them has none.
Infer ==
    /\ u_pc = "infer"
    /\ IF \A i \in DOMAIN u_alts : Supported(u_alts[i])
       THEN /\ u_parsers' = u_alts
            /\ u_i' = 1
            /\ u_pc' = "try"
            /\ u_out' = u_out
       ELSE /\ u_pc' = "done"
            /\ u_out' = Raise("CantInfer", NoArg)
            /\ UNCHANGED <<u_parsers, u_i>>
    /\ UNCHANGED <<u_alts, u_token>>
    /\ InferOnly

\* The composite parser: the alternative tried accepts the token, and its
\* result is returned.
UnionAccept ==
    /\ u_pc = "try"
    /\ u_i <= Len(u_parsers)
    /\ Parser(u_parsers[u_i], u_token).kind = "ok"
    /\ u_out' = Parser(u_parsers[u_i], u_token)
    /\ u_pc' = "done"
    /\ UNCHANGED <<u_alts, u_token, u_parsers, u_i>>
    /\ InferOnly

\* The alternative tried fails: on to the next one.
UnionReject ==
    /\ u_pc = "try"
    /\ u_i <= Len(u_parsers)
    /\ Parser(u_parsers[u_i], u_token).kind # "ok"
    /\ u_i' = u_i + 1
    /\ UNCHANGED <<u_alts, u_token, u_parsers, u_pc, u_out>>
    /\ InferOnly

\* Every alternative failed: CantParse.
UnionFail ==
    /\ u_pc = "try"
    /\ u_i > Len(u_parsers)
    /\ u_out' = Raise("CantParse", u_token)
    /\ u_pc' = "done"
    /\ UNCHANGED <<u_alts, u_token, u_parsers, u_i>>
    /\ InferOnly

NextInfer ==
    \/ Infer
    \/ UnionAccept
    \/ UnionReject
    \/ UnionFail

MaxAlternatives == 3

UnionTokens ==
    {U_empty, U_0, U_1, U_42, U_minus5, U_true, U_True, U_TRue, U_false, U_False,
     U_None, U_none, U_e}

\* Union[...] keeps one of each alternative, in declared order, and has at
\* least one.
Unions ==
    {alts \in SeqsUpTo(Shapes, MaxAlternatives) :
        /\ alts # <<>>
        /\ \A i, j \in DOMAIN alts : alts[i] = alts[j] => i = j}

StartInfer ==
    /\ u_alts \in Unions
    /\ u_token \in UnionTokens
    /\ u_parsers = <<>>
    /\ u_i = 0
    /\ u_pc = "infer"
    /\ u_out = None

IdleInfer ==
    /\ u_alts = <<>>
    /\ u_token = <<>>
    /\ u_parsers = <<>>
    /\ u_i = 0
    /\ u_pc = "idle"
    /\ u_out = None

(***************************************************************************)
(* Whole parses: one command line read by a tortoise Reader and parsed by  *)
(* the CLInterface, each running its loops to the end.                     *)
(***************************************************************************)
O_value == <<"v", "a", "l", "u", "e">>

\* Reader("ab", "value", a=1, value=float("inf"))
ParseReader ==
    [short_options |-> {O_a, O_b},
     long_options |-> {O_value},
     counts |-> (O_a :> Count(1)) @@ (O_value :> Inf)]

\* A subcommand name, a positional token, short and long options, a stacked
\* token, the lone dash and a token of three dashes.
ParseTokens == {W_bar, V_1, S_b, A_ab, S_value, T_dash, T_dashbar}

MaxParseArgv == 3

\* The CLInterfaces given the command line: foo with its subcommands, and
\* those of the tests with missing options and with long options.
ParseRoots == {"foo", "missing", "equals"}

StartParse ==
    \E argv \in SeqsUpTo(ParseTokens, MaxParseArgv) :
        /\ debug \in BOOLEAN
        /\ r_in = ParseReader
        /\ Construct(r_in)
        /\ r_argv = argv
        /\ r_deque = r_argv
        /\ r_opts = <<>>
        /\ r_args = <<>>
        /\ r_cur = <<>>
        /\ r_take = None
        /\ c_cli \in ParseRoots
        /\ c_argv = argv
        /\ c_route = <<>>
        /\ c_deque = c_argv
        /\ c_sub = "None"
        /\ c_opts = <<>>
        /\ c_args = <<>>
        /\ c_todo = <<>>
        /\ c_optargs = <<>>
        /\ c_seen = 0
        /\ c_used = 0
        /\ c_pc = "route"
        /\ c_out = None

NextParse == NextReader \/ NextCli

(***************************************************************************)
(* Specifications                                                          *)
(***************************************************************************)
InitExpand == StartExpand /\ IdleReader /\ IdleCli /\ IdleRename /\ IdleInfer
SpecExpand == InitExpand /\ [][NextExpand]_vars

InitReader == StartReader /\ IdleExpand /\ IdleCli /\ IdleRename /\ IdleInfer
SpecReader == InitReader /\ [][NextReader]_vars

\* Renamer, Merger and the inferred parsers execute no assert statement: the
\* interpreter's default mode stands for both.
DefaultMode == debug = TRUE

InitRename == DefaultMode /\ StartRename /\ IdleExpand /\ IdleReader /\ IdleCli /\ IdleInfer
SpecRename == InitRename /\ [][NextRename]_vars

InitStacked == StartStacked /\ IdleExpand /\ IdleRename /\ IdleInfer
SpecStacked == InitStacked /\ [][NextStacked]_vars

InitInfer == DefaultMode /\ StartInfer /\ IdleExpand /\ IdleReader /\ IdleCli /\ IdleRename
SpecInfer == InitInfer /\ [][NextInfer]_vars

\* The `while deque` loop of CLInterface.parse.
RouteLoop == RouteMatch \/ RouteBreak \/ RouteEnd

\* Reader.read and the routing loop are sequential code: each goes on
\* executing while it has a step to take.
InitParse == StartParse /\ IdleExpand /\ IdleRename /\ IdleInfer
SpecParse ==
    InitParse /\ [][NextParse]_vars /\ WF_vars(NextReader) /\ WF_vars(RouteLoop)

Init == StartCli /\ IdleExpand /\ IdleReader /\ IdleRename /\ IdleInfer
Next == NextCli
Spec == Init /\ [][Next]_vars

(***************************************************************************)
(* Claims about expansion (SpecExpand) and renaming (SpecRename)           *)
(***************************************************************************)
\* C1: expansion returns o exactly when o is the only declared long option
\* that starts with the prefix, and raises UnknownOption naming the token
\* when none or several do; both for OptArgSpec.expand and for
\* CLInterface.expand.
C1_ExpandUniquePrefix ==
    LET starting == {o \in x_long : StartsWith(o, x_prefix)}
        token == DashDash \o x_prefix
    IN /\ x_spec \notin {None, Idle} =>
            /\ \A o \in x_long : (x_spec = Ok(o)) <=> (starting = {o})
            /\ Cardinality(starting) # 1 => x_spec = Raise("UnknownOption", token)
       /\ x_cli \notin {None, Idle} =>
            /\ \A o \in x_long : (x_cli = Ok(DashDash \o o)) <=> (starting = {o})
            /\ Cardinality(starting) # 1 => x_cli = Raise("UnknownOption", token)

\* The left fold of a non-empty list of values with a resolver.
RECURSIVE FoldLeft(_, _)
FoldLeft(resolve, values) ==
    IF Len(values) = 1 THEN values[1]
    ELSE Resolve(resolve, FoldLeft(resolve, SubSeq(values, 1, Len(values) - 1)),
                 values[Len(values)])

RECURSIVE FoldLeftUsing(_, _)
FoldLeftUsing(using, lists) ==
    IF Len(lists) = 1 THEN lists[1]
    ELSE Using(using, FoldLeftUsing(using, SubSeq(lists, 1, Len(lists) - 1)),
               lists[Len(lists)])

\* The values, in encounter order, of the occurrences spelled by one of names.
ValuesOf(occurrences, names) ==
    LET Spelled(pair) == pair[1] \in names
        chosen == SelectSeq(occurrences, Spelled)
    IN [i \in DOMAIN chosen |-> chosen[i][2]]

EntriesOf(list, name) == {i \in DOMAIN list : list[i][1] = name}

AllSpellings(params) == UNION {Range(params[i].optargs) : i \in DOMAIN params}

\* C7: for every Param, the value bound to its canonical name is the left
\* fold, in encounter order, of the values of the occurrences spelled by one
\* of its spellings; the other occurrences pass through unchanged and in
\* order; the result has at most one entry per canonical name. Likewise for
\* Merger.merge; and -a4 -b 5 -c=6 with addition gives 15.
C7_RenameFoldsLeft ==
    /\ n_renamed \notin {None, Idle} =>
          /\ \A i \in DOMAIN RenameParams :
                LET p == RenameParams[i]
                    values == ValuesOf(n_optargs, Range(p.optargs))
                IN /\ Cardinality(EntriesOf(n_renamed.list, p.name)) <= 1
                   /\ IF values = <<>> THEN p.name \notin DOMAIN n_renamed.dict
                      ELSE n_renamed.dict[p.name] = FoldLeft(p.resolve, values)
          /\ LET Stray(pair) == pair[1] \notin AllSpellings(RenameParams)
                 Unnamed(pair) == \A i \in DOMAIN RenameParams : pair[1] # RenameParams[i].name
             IN SelectSeq(n_renamed.list, Unnamed) = SelectSeq(n_optargs, Stray)
          /\ (n_optargs = TestOccurrences /\ n_resolve = "add") => n_renamed.dict[N_x] = 15
    /\ n_merged \notin {None, Idle} =>
          /\ \A i \in DOMAIN MergeQueue :
                LET name == MergeQueue[i][1]
                    lists == ValuesOf(MergeOpts, MergeQueue[i][2] \cup {name})
                    entries == EntriesOf(n_merged.list, name)
                IN /\ Cardinality(entries) <= 1
                   /\ IF lists = <<>> THEN entries = {}
                      ELSE \A e \in entries :
                              n_merged.list[e][2] = FoldLeftUsing(MergeQueue[i][3], lists)
                   /\ (lists # <<>>) => entries # {}
          /\ LET Stray(pair) ==
                    \A i \in DOMAIN MergeQueue :
                        pair[1] # MergeQueue[i][1] /\ pair[1] \notin MergeQueue[i][2]
                 Unnamed(pair) == \A i \in DOMAIN MergeQueue : pair[1] # MergeQueue[i][1]
             IN SelectSeq(n_merged.list, Unnamed) = SelectSeq(MergeOpts, Stray)

\* C7 witness: three occurrences of the aliased Param around a stray one were
\* folded with a resolver for which the left fold differs from the right one.
C7_Witness ==
    /\ n_renamed \notin {None, Idle}
    /\ n_merged \notin {None, Idle}
    /\ n_resolve = "sub"
    /\ n_using = "head"
    /\ n_optargs = << <<S_a, 1>>, <<S_b, 2>>, <<S_a, 3>> >>
    /\ n_renamed.dict[N_x] = -4
    /\ n_merged.list = << <<N_x, <<1, 3>> >> >>

(***************************************************************************)
(* Claims about the Reader (SpecReader)                                    *)
(***************************************************************************)
ReadEnded == r_pc \in {"done", "error"}

\* The Reader was constructed: it has a spec to read with.
Constructed == r_pc # "idle" /\ r_spec # None

\* A single-dash token of length > 1: a stack of short options.
IsStack(tok) == StartsWith(tok, Dash) /\ ~StartsWith(tok, DashDash) /\ Len(tok) > 1
IsLong(tok) == StartsWith(tok, DashDash)

\* C4: a stacked short option with a nonzero bound takes the rest of its token
\* as its single argument and ends the scan of the token (stated for the
\* first token of argv: -a4 gives the one occurrence (a, ["4"])); the
\* following tokens are captured for a stacked option only when no character
\* remains after it.
C4_StackedRestIsArgument ==
    /\ (r_pc = "take" /\ r_take.ret = "stack" /\ Positive(r_take.count0))
          => r_cur = <<>>
    /\ (/\ ReadEnded
        /\ Constructed
        /\ r_argv # <<>>
        /\ IsStack(r_argv[1])
        /\ Len(r_argv[1]) > 2
        /\ <<r_argv[1][2]>> \in r_spec.short_options
        /\ Positive(r_spec.counts[<<r_argv[1][2]>>]))
          => /\ r_opts # <<>>
             /\ r_opts[1] = << <<r_argv[1][2]>>, <<DropFirst(r_argv[1], 2)>> >>

\* C5: a token --P=V is split once on "=", P is expanded, and the occurrence
\* of the expanded option has V as its only captured argument (stated for the
\* first token of argv, when P expands).
C5_LongEqualsSplits ==
    (/\ ReadEnded
     /\ Constructed
     /\ r_argv # <<>>
     /\ IsLong(r_argv[1])
     /\ FirstEq(r_argv[1]) > 0
     /\ OptArgSpec_expand(r_spec.long_options,
                          SubSeq(r_argv[1], 3, FirstEq(r_argv[1]) - 1)).kind = "ok")
       => /\ r_opts # <<>>
          /\ r_opts[1] =
               << OptArgSpec_expand(r_spec.long_options,
                                    SubSeq(r_argv[1], 3, FirstEq(r_argv[1]) - 1)).value,
                  <<DropFirst(r_argv[1], FirstEq(r_argv[1]))>> >>

\* The largest number of tokens take may remove from q under bound: the
\* length of the longest prefix without a token beginning with "-", cut at
\* the bound.
Takeable(bound, q, k) ==
    /\ bound.inf \/ k <= bound.n
    /\ \A i \in 1..k : ~StartsWith(q[i], Dash)
LongestTake(bound, q) ==
    CHOOSE k \in 0..Len(q) :
        /\ Takeable(bound, q, k)
        /\ \A j \in 0..Len(q) : Takeable(bound, q, j) => j <= k

\* C6: when take returns, it has removed from the front of the queue exactly
\* the longest prefix of tokens not beginning with "-" that the bound allows,
\* and left the rest of the queue as it was; an option declared without a
\* count has bound 0.
C6_TakeLongestPrefix ==
    /\ (r_pc = "take" /\ ~TakeGuard(r_take.count, r_deque))
          => LET k == LongestTake(r_take.count0, r_take.deque0)
             IN /\ r_take.args = SubSeq(r_take.deque0, 1, k)
                /\ r_deque = SubSeq(r_take.deque0, k + 1, Len(r_take.deque0))
    /\ Constructed
          => \A o \in r_in.short_options \cup r_in.long_options :
                o \notin DOMAIN r_in.counts => r_spec.counts[o] = Count(0)

\* C6 witness: take returns at its finite bound with a capturable token left.
C6_Witness ==
    /\ r_pc = "take"
    /\ ~TakeGuard(r_take.count, r_deque)
    /\ r_take.count0 = Count(1)
    /\ Len(r_take.args) = 1
    /\ r_deque # <<>>
    /\ ~StartsWith(Head(r_deque), Dash)

RECURSIVE SumCaptured(_)
SumCaptured(opts) ==
    IF opts = <<>> THEN 0 ELSE Len(Head(opts)[2]) + SumCaptured(Tail(opts))

IsLoneDash(tok) == tok = Dash
IsOptionToken(tok) == IsLong(tok) \/ IsStack(tok)

\* C8: no token of argv is dropped: on return every token is an option token,
\* a captured argument or a positional, and the lone "-" is a positional.
C8_NoTokenDropped ==
    r_pc = "done" =>
        /\ Len(r_argv) = Len(SelectSeq(r_argv, IsOptionToken))
                           + SumCaptured(r_opts) + Len(r_args)
        /\ SelectSeq(r_args, IsLoneDash) = SelectSeq(r_argv, IsLoneDash)

(***************************************************************************)
(* Claims about CLInterface (Spec)                                         *)
(***************************************************************************)
\* Routing as the claim states it: each token is matched against the
\* children of the context reached so far.
RECURSIVE ClaimedRoute(_, _)
ClaimedRoute(ctx, deque) ==
    LET found == IF deque = <<>> THEN {}
                 ELSE {s \in Range(Contexts[ctx].subparsers) :
                          Contexts[s].name = Head(deque)}
    IN IF found = {} THEN [ctx |-> ctx, rest |-> deque]
       ELSE ClaimedRoute(CHOOSE s \in found : TRUE, Tail(deque))

CliRouted == c_pc \notin {"idle", "route"}

\* C2: routing descends one level per matching token, each token matched
\* against the children of the last matched context; the deepest matched
\* context parses the remaining tokens.
C2_RoutingDescends ==
    CliRouted =>
        /\ c_sub = ClaimedRoute(Root, c_argv).ctx
        /\ c_deque = ClaimedRoute(Root, c_argv).rest

\* C3: on success the context stored in the Namespace, whose callback
\* __call__ invokes, is the context whose Params parsed the tokens and whose
\* callback check_arguments checked.
C3_NamespaceContextIsActive ==
    c_pc \in {"done", "called"} => c_out.cli = c_sub

RECURSIVE PendingCaptured(_)
PendingCaptured(opts) ==
    IF opts = <<>> THEN 0 ELSE Len(Head(opts)) - 1 + PendingCaptured(Tail(opts))

CliParsing == c_pc \in {"opts", "args", "done", "called"}

\* C9: no token is silently ignored: every token normalize produced is
\* consumed by a parser, still captured for an option to come, or in the
\* positional list (so the tokens an option's parser leaves are returned to
\* that list); a token left after the positional Params fails with
\* UnknownOption naming the first one; on success every token was consumed,
\* and a context without Params accepts no token at all.
C9_NoTokenIgnored ==
    /\ CliParsing => c_used + PendingCaptured(c_opts) + Len(c_args) = c_seen
    /\ (c_pc = "error" /\ c_opts = <<>> /\ c_todo = <<>> /\ c_args # <<>>)
          => c_out.exc = Raise("UnknownOption", Head(c_args))
    /\ c_pc \in {"done", "called"} => (c_args = <<>> /\ c_used = c_seen)
    /\ (c_pc \in {"done", "called"} /\ Contexts[c_sub].params = <<>>) => c_deque = <<>>

\* C9 witness: -n captured two tokens, its parser consumed one, and the
\* other was parsed by the positional Param on a successful parse.
C9_Witness ==
    /\ c_pc = "done"
    /\ c_cli = "mixed"
    /\ c_argv = <<S_n, V_1, V_x>>
    /\ c_out.names[N_numbers] = <<1>>
    /\ c_out.names[N_rest] = <<V_x>>
    /\ c_seen = 2
    /\ c_used = 2

\* The parameters the callback of the active context requires and the renamed
\* mapping lacks.
MissingNames ==
    Contexts[c_sub].callback.required
        \ DOMAIN Renamer_call(Contexts[c_sub].params, c_optargs)

\* C10: a required parameter absent from the mapping makes the parse fail
\* with a MissingArgument naming the parameter; otherwise the mapping is
\* returned unchanged.
C10_MissingArgumentNamesParameter ==
    /\ (c_pc = "error" /\ c_out.exc.kind = "MissingArgument")
          => c_out.exc.token \in MissingNames
    /\ c_pc = "done"
          => /\ MissingNames = {}
             /\ c_out.names = Renamer_call(Contexts[c_sub].params, c_optargs)

(***************************************************************************)
(* Claims about stacked flags (SpecStacked)                                *)
(***************************************************************************)
\* The characters stacked in a token.
StackChars(tok) == DropFirst(tok, 1)

\* One occurrence per character, in order, each without arguments, as
\* Reader.read lists them.
FlagOccurrences(chars) == [i \in DOMAIN chars |-> << <<chars[i]>>, <<>> >>]

\* The mapping with exactly the flags of a set turned on (each flag emits
\* its own letter): it depends on the set only, not on an order.
FlagsOn(flags) == [name \in {<<ch>> : ch \in flags} |-> name[1]]

\* The Reader was given a stacked token first, and all its flags have bound 0.
ReaderStacked ==
    /\ r_pc # "idle"
    /\ r_argv # <<>>
    /\ r_argv[1] \in FlagStacks
    /\ \A ch \in FlagChars : r_spec.counts[<<ch>>] = Count(0)

\* The CLInterface that declares the flags parses a command line that begins
\* with a stacked token.
CliStacked ==
    /\ c_sub = "stacked"
    /\ c_argv # <<>>
    /\ c_argv[1] \in FlagStacks

\* C11: a token that stacks a permutation of a subset of the zero-argument
\* flags a, b, c yields one flag occurrence per character and consumes no
\* following token, in Reader.read and in the CLInterface; the final mapping
\* of names to values has exactly the stacked flags turned on, so it is the
\* same for every permutation of the same subset.
C11_StackedFlagsOrderIndependent ==
    /\ ReaderStacked =>
          LET chars == StackChars(r_argv[1])
          IN /\ r_pc # "error"
             /\ (r_pc = "stack" \/ (r_pc = "take" /\ r_take.ret = "stack"))
                   => r_deque = Tail(r_argv)
             /\ r_pc = "done" =>
                   /\ Len(r_opts) >= Len(chars)
                   /\ SubSeq(r_opts, 1, Len(chars)) = FlagOccurrences(chars)
                   /\ \A i \in (Len(chars) + 1)..Len(r_opts) :
                         r_opts[i][1] \notin {<<ch>> : ch \in FlagChars}
    /\ CliStacked =>
          LET chars == StackChars(c_argv[1])
              following == Tail(c_argv)
          IN /\ CliParsing =>
                   /\ Len(c_optargs) + Len(c_opts) = Len(chars)
                   /\ \A i \in DOMAIN c_opts : Len(c_opts[i]) = 1
                   /\ c_args = following
                   /\ c_used = 0
             /\ c_pc = "error" =>
                   /\ following # <<>>
                   /\ c_out.exc = Raise("UnknownOption", following[1])
             /\ c_pc \in {"done", "called"} =>
                   c_out.names = FlagsOn(Range(chars))
             /\ c_pc = "called" =>
                   /\ c_out.kind = "return"
                   /\ c_out.args = FlagsOn(Range(chars))

\* C11 witness: -cba was read, followed by a token that stayed positional,
\* and was parsed by the CLInterface, whose callback got a, b and c turned on.
C11_Witness ==
    /\ r_pc = "done"
    /\ r_argv = << <<"-", "c", "b", "a">>, T_4 >>
    /\ r_opts = << <<O_c, <<>> >>, <<O_b, <<>> >>, <<O_a, <<>> >> >>
    /\ r_args = <<T_4>>
    /\ c_pc = "called"
    /\ c_cli = "stacked"
    /\ c_argv = << <<"-", "c", "b", "a">> >>
    /\ c_out.args = (N_a :> "a") @@ (N_b :> "b") @@ (N_c :> "c")

(***************************************************************************)
(* Claims about infer on a Union (SpecInfer)                               *)
(***************************************************************************)
\* The alternatives, by their place in the declared order, whose parser
\* accepts the token.
Accepting == {i \in DOMAIN u_alts : Parser(u_alts[i], u_token).kind = "ok"}

UnionParsed == u_pc = "done" /\ u_out.kind # "CantInfer"

\* C12: the parser inferred for a Union returns the result of the first
\* alternative, in declared order, whose parser accepts the token, and
\* CantParse if none accepts; on "0", Union[int, bool] gives the int 0 and
\* Union[bool, int] the bool False.
C12_UnionFirstSuccessWins ==
    /\ UnionParsed =>
          IF Accepting = {} THEN u_out = Raise("CantParse", u_token)
          ELSE LET first == CHOOSE i \in Accepting : \A j \in Accepting : i <= j
               IN u_out = Parser(u_alts[first], u_token)
    /\ (UnionParsed /\ u_token = U_0 /\ u_alts = <<"int", "bool">>)
          => u_out = Ok(IntValue(0))
    /\ (UnionParsed /\ u_token = U_0 /\ u_alts = <<"bool", "int">>)
          => u_out = Ok(BoolValue(FALSE))

\* C12 witness: Union[None, int, bool] parsed "0": None rejected it, and int,
\* declared before bool, gave the int 0 although bool accepts "0" too.
C12_Witness ==
    /\ u_pc = "done"
    /\ u_alts = <<"None", "int", "bool">>
    /\ u_token = U_0
    /\ u_i = 2
    /\ Accepting = {2, 3}
    /\ u_out = Ok(IntValue(0))

(***************************************************************************)
(* Claims about whole parses (SpecParse)                                   *)
(***************************************************************************)
\* Each iteration of the three loops that goes on to another iteration has
\* removed at least one token from the loop's deque.
LoopsConsume ==
    /\ (cliVars' # cliVars /\ c_pc = "route" /\ c_pc' = "route")
          => Len(c_deque') < Len(c_deque)
    /\ (readerVars' # readerVars /\ r_pc = "loop" /\ r_pc' # "done")
          => Len(r_deque') < Len(r_deque)
    /\ (readerVars' # readerVars /\ r_pc = "take" /\ r_pc' = "take")
          => Len(r_deque') < Len(r_deque)

\* The work a deque still holds: every token counts for its characters, each
\* of which may be a stacked option, and for itself.
RECURSIVE Weight(_)
Weight(deque) ==
    IF deque = <<>> THEN 0 ELSE 3 * Len(Head(deque)) + 4 + Weight(Tail(deque))

\* A bound on the steps Reader.read has left.
ReaderMeasure ==
    Weight(r_deque) + 3 * Len(r_cur)
        + (CASE r_pc = "take" -> 3
             [] r_pc = "stack" -> 2
             [] r_pc = "loop" -> 1
             [] OTHER -> 0)

\* The largest number of positional spellings a context declares.
MostArguments ==
    LET lens == {Len(Arguments(Contexts[c].params)) : c \in DOMAIN Contexts}
    IN CHOOSE n \in lens : \A m \in lens : m <= n

\* A bound on the steps CLInterface.parse and __call__ have left.
CliMeasure ==
    CASE c_pc = "route" -> 5 + MostArguments + Weight(c_deque)
      [] c_pc = "normalize" -> 4 + MostArguments + Weight(c_deque)
      [] c_pc = "opts" -> 3 + MostArguments + Len(c_opts)
      [] c_pc = "args" -> 2 + Len(c_todo)
      [] c_pc = "done" -> 1
      [] OTHER -> 0

\* Every step of either program lowers its bound, which is a natural number.
StepsDescend ==
    /\ readerVars' # readerVars => ReaderMeasure' < ReaderMeasure
    /\ cliVars' # cliVars => CliMeasure' < CliMeasure
    /\ ReaderMeasure' \in Nat
    /\ CliMeasure' \in Nat

\* What a parse ends with: a result, or one of the typed failures.
EndsTyped ==
    /\ r_pc = "done" => r_err = None
    /\ r_pc = "error" => r_err.kind = "UnknownOption"
    /\ c_pc = "done" => c_out.kind = "Namespace"
    /\ c_pc = "error" =>
          /\ c_out.kind = "exit"
          /\ c_out.exc.kind \in {"UnknownOption", "CantParse", "MissingArgument"}

\* C13: every parse terminates: the routing loop of CLInterface.parse, the
\* loop of Reader.read and the loop of take (also with the bound inf) remove
\* at least one token per iteration or stop; every step of a parse lowers a
\* bound on the steps left, so none goes on forever; a parse ends with a
\* result or a typed failure; and Reader.read and the routing loop do come
\* to their end.
C13_ParseTerminates ==
    /\ [][LoopsConsume /\ StepsDescend]_vars
    /\ []EndsTyped
    /\ <>(ReadEnded /\ CliRouted)

====
